---- MODULE Spec2Model ----
(***************************************************************************)
(* Correlation-chart fulfillment (server/lib/nl/fulfillment/correlation.py)*)
(* as a state machine: populate() walks the CONTAINED_IN classifications,  *)
(* for each one the places of the utterance and then the places of the     *)
(* context, and for each place filters the main and context variables by   *)
(* existence and registers one scatter chart per surviving main variable.  *)
(***************************************************************************)
EXTENDS Integers, Sequences, FiniteSets, TLC

\* ---------------------------------------------------------------- bounds
MaxIntents == 2
MaxPlaces == 2
MaxCtxPlaces == 1
MaxSvs == 3
MaxTurns == 2
MaxTurnSvs == 2

\* ------------------------------------------------------------ value pools
Places == {"geoId/06", "country/USA"}
PlaceTypes == {"County", "State"}
Vars == {"Count_Person", "Median_Income", "Count_Household"}
Topic == "dc/topic/Economy"
Ids == Vars \cup {Topic}
NoPlace == "none"
NoType == "none"

\* Sequences over S of length at most n.
BSeq(S, n) == UNION {[1..m -> S] : m \in 0..n}

IsInjective(s) == \A a, b \in DOMAIN s : s[a] = s[b] => a = b

\* The order in which detection ranks the identifiers it returns.
IdOrder == <<Topic, "Count_Person", "Median_Income", "Count_Household">>

Rank(v) == CHOOSE n \in DOMAIN IdOrder : IdOrder[n] = v

\* A detected list: no identifier twice, in detection order.
IsDetected(s) == \A a, b \in DOMAIN s : a < b => Rank(s[a]) < Rank(s[b])

Detected(n) == {s \in BSeq(Ids, n) : IsDetected(s)}

Range(s) == {s[x] : x \in DOMAIN s}

\* A classification as classifications_of_type_from_context yields it: None,
\* one whose attributes are of another variant, or one carrying
\* ContainedInClassificationAttributes with its contained_in_place_type.
Classifications ==
    {[attributes |-> "None", place_type |-> NoType],
     [attributes |-> "Other", place_type |-> NoType]}
    \cup {[attributes |-> "ContainedIn", place_type |-> t] : t \in PlaceTypes}

NoClassification == [attributes |-> "None", place_type |-> NoType]

VARIABLES
    uttr_places,      \* uttr.places
    uttr_svs,         \* uttr.svs
    charts,           \* the utterance's chart list (accepted registrations)
    classification,   \* loop variable of populate
    i,                \* classifications read so far by populate's loop
    place_type,       \* state.place_type
    block_id,         \* state.block_id
    phase,            \* which loop of _populate_correlation_for_place_type
    j,                \* places read so far by the running place loop
    place,            \* the place of the running place attempt
    places_to_check,  \* local of _populate_correlation_for_place
    observed,         \* variables with observations across places_to_check
    main_svs,         \* local of _populate_correlation_for_place
    context_svs,      \* local of _populate_correlation_for_place
    k,                \* main variables read so far by the pairing loop
    found,            \* local of _populate_correlation_for_place
    ret,              \* the value the last returned helper returned
    calls,            \* collaborator calls of the running place attempt
    attempted,        \* charts the running place attempt asked to register
    pc,               \* position in the code
    result,           \* what populate ended with
    history,          \* what svs_from_context returned (lines 72-81 alone)
    candidates,       \* the context_svs that line 81 passes on
    request,          \* arguments of CloudApiClient.import_key
    http,             \* what http_post answered
    returned          \* what import_key ended with

vars == <<uttr_places, uttr_svs, charts, classification, i, place_type,
          block_id, phase, j, place, places_to_check, observed, main_svs,
          context_svs, k, found, ret, calls, attempted, pc, result,
          history, candidates, request, http, returned>>

\* The variables of populate.
vars_populate == <<uttr_places, uttr_svs, charts, classification, i,
                   place_type, block_id, phase, j, place, places_to_check,
                   observed, main_svs, context_svs, k, found, ret, calls,
                   attempted, pc, result>>

\* The variables of the other entry points, which populate leaves alone.
collectVars == <<history, candidates>>
importKeyVars == <<request, http, returned>>
sideVars == <<collectVars, importKeyVars>>

uttrVars == <<uttr_places, uttr_svs>>
populateVars == <<classification, i>>
stateVars == <<place_type, block_id>>
typeVars == <<phase, j>>
placeVars == <<place, places_to_check, observed, main_svs, context_svs, k,
               found>>
logVars == <<calls, attempted>>

\* What no step of populate writes: its inputs and the other entry points.
fixedVars == <<uttrVars, sideVars>>

\* ------------------------------------------------------- pure operators

\* get_only_svs: keeps the identifiers that are statistical variables.
get_only_svs(svs) == SelectSeq(svs, LAMBDA v : v \in Vars)

\* sv_existence_for_places: the candidates, in their order, that have an
\* observation across the sampled places.
sv_existence_for_places(obs, svs) == SelectSeq(svs, LAMBDA v : v \in obs)

\* get_sample_child_places: the sample of children of `dcid` of type `t`.
get_sample_child_places(dcid, t) == <<dcid, t>>

\* Lines 76-80 without the `if sv in svs_set: continue` of lines 77-78.
AddAll(acc, svs) == acc \o svs

\* Lines 76-80 for one turn's variables: append those not yet seen.
RECURSIVE AddUnseen(_, _)
AddUnseen(acc, svs) ==
    IF svs = <<>> THEN acc
    ELSE AddUnseen(IF Head(svs) \in Range(acc) THEN acc
                   ELSE Append(acc, Head(svs)),
                   Tail(svs))

\* Lines 73-80: walk the turns of svs_from_context, most recent first.
RECURSIVE CollectContextSvs(_, _)
CollectContextSvs(acc, turns) ==
    IF turns = <<>> THEN acc
    ELSE CollectContextSvs(AddUnseen(acc, get_only_svs(Head(turns))),
                           Tail(turns))

\* What one history turn detected: nothing, or one identifier.
TurnSvs == {<<>>} \cup {<<v>> : v \in Ids}

\* What svs_from_context may return: the variables of each history turn.
SvsFromContext == BSeq(TurnSvs, MaxTurns)

\* Lines 73-80 over every history svs_from_context may return.
ContextCandidates == {CollectContextSvs(<<>>, turns) : turns \in SvsFromContext}

\* Line 67 left out: the main variables are not checked for existence.
MainSvsUnchecked == get_only_svs(uttr_svs)

\* Lines 66-67: the main variables of this utterance that exist.
MainSvs == sv_existence_for_places(observed, get_only_svs(uttr_svs))

\* Line 81: the context variables that exist.
ContextSvs(cands) == sv_existence_for_places(observed, cands)

\* Line 68 never taken: an attempt without main variables goes on.
NoMainSvIgnored(svs) == FALSE

\* `not main_svs` of line 68.
NoMainSv(svs) == svs = <<>>

\* `not context_svs` of line 82.
NoContextSv(svs) == svs = <<>>

\* The pair of line 100 in the other order.
ChartSvsSwapped(sv_1, sv_2) == <<sv_2, sv_1>>

\* ChartVars(svs=[sv_1, sv_2], ...) of line 100.
ChartSvs(sv_1, sv_2) == <<sv_1, sv_2>>

\* Line 93 picking the last context variable instead of the first.
PickLastContextSv(csvs) == csvs[Len(csvs)]

\* The context variable line 93 pairs every main variable with.
PickContextSv(csvs) == csvs[1]

\* Line 93 as `found = ok`: the last registration decides.
AccumulateLast(f, ok) == ok

\* Line 93 as `found &= ok`.
AccumulateAll(f, ok) == f /\ ok

\* `found |= ok` of line 93.
Accumulate(f, ok) == f \/ ok

\* Line 99 left out: the block counter never moves.
SameBlockId(b) == b

\* Line 99.
NextBlockId(b) == b + 1

\* block_id of a new PopulateState (lines 42-45 pass none).
NewBlockId == 0

\* Lines 52-53 and 55-56 without the early return.
NeverStopsPlaceSearch(r) == FALSE

\* Lines 52 and 55: whether a place's result ends the place loops.
StopsPlaceSearch(r) == r

\* Lines 41-46 without the early return.
NeverStopsIntentSearch(r) == FALSE

\* Line 41: whether a place type's result ends populate's loop.
StopsIntentSearch(r) == r

\* ----------------------------------------------------------------- Init
NotCollected == [passed |-> FALSE, svs |-> <<>>]
NoRequest == [developer_email |-> "none", app_name |-> "none", key |-> "none"]
NoAnswer == [kind |-> "none"]
NotReturned == [kind |-> "none", value |-> "", status_code |-> 0]

\* lines 72-81 are not being run on their own.
CollectIdle ==
    /\ history = <<>>
    /\ candidates = NotCollected

\* import_key is not being called.
ImportKeyIdle ==
    /\ request = NoRequest
    /\ http = NoAnswer
    /\ returned = NotReturned

Init ==
    /\ uttr_places \in {s \in BSeq(Places, MaxPlaces) : IsInjective(s)}
    /\ uttr_svs \in Detected(MaxSvs)
    /\ charts = <<>>
    /\ classification = NoClassification
    /\ i = 0
    /\ place_type = NoType
    /\ block_id = NewBlockId
    /\ phase = "none"
    /\ j = 0
    /\ place = NoPlace
    /\ places_to_check = <<>>
    /\ observed = {}
    /\ main_svs = <<>>
    /\ context_svs = <<>>
    /\ k = 0
    /\ found = FALSE
    /\ ret = FALSE
    /\ calls = <<>>
    /\ attempted = <<>>
    /\ pc = "populate"
    /\ result = "none"
    /\ CollectIdle
    /\ ImportKeyIdle

\* The locals of _populate_correlation_for_place once its frame is gone.
ClearPlaceFrame ==
    /\ place' = NoPlace
    /\ places_to_check' = <<>>
    /\ observed' = {}
    /\ main_svs' = <<>>
    /\ context_svs' = <<>>
    /\ k' = 0
    /\ found' = FALSE

\* The locals of _populate_correlation_for_place_type once its frame is gone.
ClearPlaceTypeFrame ==
    /\ phase' = "none"
    /\ j' = 0

Called(op) == Append(calls, op)

\* An exception of collaborator `op` caught inside the place attempt as if
\* lines 62-81 sat in a try block: the attempt returns False and the search
\* goes on.
RaiseSwallowed(op) ==
    /\ pc' = "place_ret"
    /\ result' = "raised"
    /\ ret' = FALSE
    /\ calls' = Called(op)
    /\ ClearPlaceFrame
    /\ UNCHANGED <<fixedVars, charts, populateVars, stateVars, typeVars,
                   attempted>>

\* An exception of collaborator `op` unwinds every frame and leaves populate.
Raise(op) ==
    /\ pc' = "done"
    /\ result' = "raised"
    /\ calls' = Called(op)
    /\ ClearPlaceFrame
    /\ ClearPlaceTypeFrame
    /\ UNCHANGED <<fixedVars, charts, populateVars, stateVars, ret, attempted>>

\* ------------------------------------------------------------- populate

\* Line 36: the loop reads the next classification of the list that
\* classifications_of_type_from_context returned (lines 33-34).
NextClassification ==
    /\ pc = "populate"
    /\ i < MaxIntents
    /\ classification' \in Classifications
    /\ i' = i + 1
    /\ pc' = "classification"
    /\ UNCHANGED <<fixedVars, charts, stateVars, typeVars, placeVars, ret,
                   logVars, result>>

\* Lines 37-38 without the isinstance test: only None is skipped.
SkipsOnlyNone(c) == c.attributes = "None"

\* Lines 37-38: the test that skips a classification.
SkipsClassification(c) ==
    c.attributes = "None" \/ c.attributes # "ContainedIn"

\* Lines 37-39: a classification that is None or of another variant.
SkipClassification ==
    /\ pc = "classification"
    /\ SkipsClassification(classification)
    /\ pc' = "populate"
    /\ UNCHANGED <<fixedVars, charts, populateVars, stateVars, typeVars,
                   placeVars, ret, logVars, result>>

\* Lines 40-45: a new PopulateState for the classification's place type.
StartPlaceType ==
    /\ pc = "classification"
    /\ ~SkipsClassification(classification)
    /\ place_type' = classification.place_type
    /\ block_id' = NewBlockId
    /\ phase' = "uttr"
    /\ j' = 0
    /\ pc' = "place"
    /\ UNCHANGED <<fixedVars, charts, populateVars, placeVars, ret, logVars,
                   result>>

\* Lines 41 and 46: a place type that succeeded ends populate with True.
PopulateReturnTrue ==
    /\ pc = "type_ret"
    /\ StopsIntentSearch(ret)
    /\ pc' = "done"
    /\ result' = "true"
    /\ UNCHANGED <<fixedVars, charts, populateVars, stateVars, typeVars,
                   placeVars, ret, logVars>>

\* Line 41: a place type that did not succeed; the loop goes on.
PopulateContinue ==
    /\ pc = "type_ret"
    /\ ~StopsIntentSearch(ret)
    /\ pc' = "populate"
    /\ UNCHANGED <<fixedVars, charts, populateVars, stateVars, typeVars,
                   placeVars, ret, logVars, result>>

\* Line 47: the classifications are exhausted.
PopulateReturnFalse ==
    /\ pc = "populate"
    /\ pc' = "done"
    /\ result' = "false"
    /\ UNCHANGED <<fixedVars, charts, populateVars, stateVars, typeVars,
                   placeVars, ret, logVars>>

\* ------------------------------------- _populate_correlation_for_place_type

\* A place attempt begins: line 52 or 55 calls
\* _populate_correlation_for_place(state, pl).
BeginPlace(pl) ==
    /\ place' = pl
    /\ j' = j + 1
    /\ pc' = "sample"
    /\ UNCHANGED <<fixedVars, charts, populateVars, stateVars, phase,
                   places_to_check, observed, main_svs, 
                   context_svs, k, found, ret, logVars, result>>

\* Lines 51-52: the next place of uttr.places.
NextPlace ==
    /\ pc = "place"
    /\ phase = "uttr"
    /\ j < Len(uttr_places)
    /\ BeginPlace(uttr_places[j + 1])

\* Line 54: uttr.places are exhausted; places_from_context is called.
PlacesFromContext ==
    /\ pc = "place"
    /\ phase = "uttr"
    /\ j >= Len(uttr_places)
    /\ phase' = "context"
    /\ j' = 0
    /\ UNCHANGED <<fixedVars, charts, populateVars, stateVars, placeVars, ret,
                   logVars, pc, result>>

\* Lines 54-55: the loop reads the next place of the list that
\* places_from_context returned.
NextContextPlace ==
    /\ pc = "place"
    /\ phase = "context"
    /\ j < MaxCtxPlaces
    /\ \E pl \in Places : BeginPlace(pl)

\* Lines 53 and 56: a place that succeeded ends the place type with True.
PlaceTypeReturnTrue ==
    /\ pc = "place_ret"
    /\ StopsPlaceSearch(ret)
    /\ ret' = TRUE
    /\ ClearPlaceTypeFrame
    /\ pc' = "type_ret"
    /\ UNCHANGED <<fixedVars, charts, populateVars, stateVars, placeVars,
                   logVars, result>>

\* Lines 52 and 55 with the loop stepping back: a place that did not
\* succeed is attempted again.
PlaceTypeRetry ==
    /\ pc = "place_ret"
    /\ ~StopsPlaceSearch(ret)
    /\ calls' = <<>>
    /\ attempted' = <<>>
    /\ j' = j - 1
    /\ pc' = "place"
    /\ UNCHANGED <<fixedVars, charts, populateVars, stateVars, phase,
                   placeVars, ret, result>>

\* Lines 52 and 55: a place that did not succeed; the place loop goes on.
PlaceTypeContinue ==
    /\ pc = "place_ret"
    /\ ~StopsPlaceSearch(ret)
    /\ calls' = <<>>
    /\ attempted' = <<>>
    /\ pc' = "place"
    /\ UNCHANGED <<fixedVars, charts, populateVars, stateVars, typeVars,
                   placeVars, ret, result>>

\* Line 57: the places of the context are exhausted.
PlaceTypeReturnFalse ==
    /\ pc = "place"
    /\ phase = "context"
    /\ ret' = FALSE
    /\ ClearPlaceTypeFrame
    /\ pc' = "type_ret"
    /\ UNCHANGED <<fixedVars, charts, populateVars, stateVars, placeVars,
                   logVars, result>>

\* ------------------------------------------ _populate_correlation_for_place

\* Line 62: the sample of child places; `observed` is what the existence
\* service knows about that sample.
Sample ==
    /\ pc = "sample"
    /\ \/ /\ places_to_check' = get_sample_child_places(place, place_type)
          /\ observed' \in SUBSET Vars
          /\ calls' = Called("sample")
          /\ pc' = "main_check"
          /\ UNCHANGED <<fixedVars, charts, populateVars, stateVars, typeVars,
                         place, main_svs, context_svs, k,
                         found, ret, attempted, result>>
       \/ Raise("sample")

\* The place attempt returns `r` after calling `op` (lines 70, 84 and 94).
PlaceReturn(op, r) ==
    /\ ret' = r
    /\ calls' = IF op = "none" THEN calls ELSE Called(op)
    /\ ClearPlaceFrame
    /\ pc' = "place_ret"
    /\ UNCHANGED <<fixedVars, charts, populateVars, stateVars, typeVars,
                   attempted, result>>

\* Lines 66-70: the main variables that exist; none ends the attempt.
MainCheck ==
    /\ pc = "main_check"
    /\ \/ IF NoMainSv(MainSvs)
          THEN PlaceReturn("main_check", FALSE)
          ELSE /\ main_svs' = MainSvs
               /\ calls' = Called("main_check")
               /\ pc' = "context_check"
               /\ UNCHANGED <<fixedVars, charts, populateVars, stateVars,
                              typeVars, place, places_to_check, observed,
                              context_svs, k, found, ret,
                              attempted, result>>
       \/ Raise("main_check")

\* Lines 73-91: the context variables, deduplicated, that exist; none ends
\* the attempt.
ContextCheck ==
    /\ pc = "context_check"
    /\ \/ \E cands \in ContextCandidates :
                IF NoContextSv(ContextSvs(cands))
                THEN PlaceReturn("context_check", FALSE)
                ELSE /\ context_svs' = ContextSvs(cands)
                     /\ calls' = Called("context_check")
                     /\ found' = FALSE
                     /\ k' = 0
                     /\ pc' = "pairs"
                     /\ UNCHANGED <<fixedVars, charts, populateVars, stateVars,
                                    typeVars, place, places_to_check,
                                    observed, main_svs, ret, attempted,
                                    result>>
       \/ Raise("context_check")

\* The chart add_chart_to_utterance is asked to register (lines 100-104).
Chart(sv_1, sv_2, b) ==
    [svs |-> ChartSvs(sv_1, sv_2), block_id |-> b, place |-> place,
     place_type |-> place_type]

\* Lines 92-93 and 97-104: one chart for the next main variable, which
\* add_chart_to_utterance accepts, rejects or fails on.
PopulateCorrelationChart ==
    /\ pc = "pairs"
    /\ k < Len(main_svs)
    /\ LET b == NextBlockId(block_id)
           c == Chart(main_svs[k + 1], PickContextSv(context_svs), b)
       IN  \/ \E ok \in BOOLEAN :
                /\ block_id' = b
                /\ charts' = IF ok THEN Append(charts, c) ELSE charts
                /\ attempted' = Append(attempted, [chart |-> c, ok |-> ok])
                /\ calls' = Called("register")
                /\ found' = Accumulate(found, ok)
                /\ k' = k + 1
                /\ UNCHANGED <<fixedVars, populateVars, place_type, typeVars,
                               place, places_to_check, observed, main_svs,
                               context_svs, ret, pc, result>>
           \/ /\ block_id' = b
              /\ pc' = "done"
              /\ result' = "raised"
              /\ calls' = Called("register")
              /\ ClearPlaceFrame
              /\ ClearPlaceTypeFrame
              /\ UNCHANGED <<fixedVars, charts, populateVars, place_type, ret,
                             attempted>>

\* Line 94: every main variable was paired; the attempt returns found.
PairsReturn ==
    /\ pc = "pairs"
    /\ k >= Len(main_svs)
    /\ PlaceReturn("none", found)

Next ==
    \/ NextClassification
    \/ SkipClassification
    \/ StartPlaceType
    \/ PopulateReturnTrue
    \/ PopulateContinue
    \/ PopulateReturnFalse
    \/ NextPlace
    \/ PlacesFromContext
    \/ NextContextPlace
    \/ PlaceTypeReturnTrue
    \/ PlaceTypeContinue
    \/ PlaceTypeReturnFalse
    \/ Sample
    \/ MainCheck
    \/ ContextCheck
    \/ PopulateCorrelationChart
    \/ PairsReturn

Spec == Init /\ [][Next]_vars

\* ------------------------------------------- lines 72-81 on their own

\* populate is not running.
PopulateIdle ==
    /\ uttr_places = <<>>
    /\ uttr_svs = <<>>
    /\ charts = <<>>
    /\ classification = NoClassification
    /\ i = 0
    /\ place_type = NoType
    /\ block_id = NewBlockId
    /\ phase = "none"
    /\ j = 0
    /\ place = NoPlace
    /\ places_to_check = <<>>
    /\ observed = {}
    /\ main_svs = <<>>
    /\ context_svs = <<>>
    /\ k = 0
    /\ found = FALSE
    /\ ret = FALSE
    /\ calls = <<>>
    /\ attempted = <<>>
    /\ pc = "idle"
    /\ result = "none"

\* The identifiers the history turns of this entry point may hold.
HistoryIds == {"Count_Person", "Median_Income", Topic}

\* What svs_from_context may return when a turn holds several identifiers,
\* repeated within the turn or across turns; most recent turn first.
Histories == BSeq(BSeq(HistoryIds, MaxTurnSvs), MaxTurns)

InitCollect ==
    /\ PopulateIdle
    /\ ImportKeyIdle
    /\ history \in Histories
    /\ candidates = NotCollected

\* Lines 73-80 build context_svs from the history; line 81 passes it to
\* sv_existence_for_places.
Collect ==
    /\ ~candidates.passed
    /\ candidates' = [passed |-> TRUE, svs |-> CollectContextSvs(<<>>, history)]
    /\ UNCHANGED <<vars_populate, history, importKeyVars>>

NextCollect == Collect

SpecCollect == InitCollect /\ [][NextCollect]_vars

\* ------------------- CloudApiClient.import_key (tools/apigee/apigee.py)

HTTP_RESOURCE_EXISTS_CODE == 409

Emails == {"test@test.com", "dev@example.com"}
AppNames == {"Test App2", "Test App3"}
Keys == {"barbaz", "foobar"}

Requests == [developer_email : Emails, app_name : AppNames, key : Keys]

\* The JSON object of a successful POST, with or without a consumerKey.
Responses ==
    {[consumerKey |-> key, status |-> "approved"] : key \in Keys}
    \cup {[status |-> "approved"]}

\* The status codes raise_for_status turns into an HTTPStatusError.
ErrorStatusCodes == {400, 401, 403, 404, HTTP_RESOURCE_EXISTS_CODE, 500}

\* What http_post does: return the response's JSON or raise HTTPStatusError.
Answers ==
    {[kind |-> "response", response |-> r] : r \in Responses}
    \cup {[kind |-> "error", status_code |-> c] : c \in ErrorStatusCodes}

\* dict.get(name, default)
Get(dict, name, default) ==
    IF name \in DOMAIN dict THEN dict[name] ELSE default

Value(v) == [kind |-> "value", value |-> v, status_code |-> 0]

Raised(c) == [kind |-> "raised", value |-> "", status_code |-> c]

\* Line 70: what import_key returns when the key already exists.
ReturnedOnExists(req) == req.app_name

InitImportKey ==
    /\ PopulateIdle
    /\ CollectIdle
    /\ request \in Requests
    /\ http = NoAnswer
    /\ returned = NotReturned

\* Lines 57-63: the POST of the key to the app of the developer.
HttpPost ==
    /\ request # NoRequest
    /\ http = NoAnswer
    /\ http' \in Answers
    /\ UNCHANGED <<vars_populate, collectVars, request, returned>>

\* Lines 64-65: the POST succeeded.
ReturnConsumerKey ==
    /\ returned = NotReturned
    /\ http.kind = "response"
    /\ returned' = Value(Get(http.response, "consumerKey", ""))
    /\ UNCHANGED <<vars_populate, collectVars, request, http>>

\* Lines 66-70: HTTPStatusError with the status of an existing resource.
KeyExists ==
    /\ returned = NotReturned
    /\ http.kind = "error"
    /\ http.status_code = HTTP_RESOURCE_EXISTS_CODE
    /\ returned' = Value(ReturnedOnExists(request))
    /\ UNCHANGED <<vars_populate, collectVars, request, http>>

\* Line 71: any other HTTPStatusError is raised again.
Reraise ==
    /\ returned = NotReturned
    /\ http.kind = "error"
    /\ http.status_code # HTTP_RESOURCE_EXISTS_CODE
    /\ returned' = Raised(http.status_code)
    /\ UNCHANGED <<vars_populate, collectVars, request, http>>

NextImportKey ==
    \/ HttpPost
    \/ ReturnConsumerKey
    \/ KeyExists
    \/ Reraise

SpecImportKey == InitImportKey /\ [][NextImportKey]_vars

\* ---------------------------------------------------------------- claims

Returned == pc = "done" /\ result # "raised"

Ops == Range(calls)

\* C1: populate returns true if and only if at least one chart registration
\* was accepted during the invocation; otherwise it returns false (no
\* collaborator raising).
C1_TrueIffAccepted ==
    Returned => /\ result \in {"true", "false"}
                /\ (result = "true") <=> (charts # <<>>)

C1_Witness ==
    /\ Returned
    /\ result = "true"
    /\ Len(charts) = 1
    /\ Len(attempted) = 2
    /\ attempted[1].ok
    /\ ~attempted[2].ok

\* C2: classifications are tried in the order they are read, and once one
\* of them has had a chart accepted no later classification is read, so no
\* sampling, existence check or registration happens for a later one.
C2_NoIntentAfterSuccess ==
    [][/\ i' \in {i, i + 1}
       /\ (charts # <<>> => i' = i)
       /\ (charts' # charts => i' = i)]_vars

C2_Witness ==
    /\ Returned
    /\ result = "true"
    /\ i = 1
    /\ i < MaxIntents

\* C3: within one place type the places of the utterance are attempted in
\* their order, then the places of the context; the first place with an
\* accepted chart ends the search, and no later place is sampled.
C3_PlacesInOrderUntilSuccess ==
    [][/\ (charts # <<>> => ~(pc # "sample" /\ pc' = "sample"))
       /\ (pc # "sample" /\ pc' = "sample" =>
             /\ j' = j + 1
             /\ phase' = phase
             /\ (phase = "uttr" => place' = uttr_places[j + 1]))
       /\ (phase = "uttr" /\ phase' = "context" => j = Len(uttr_places))
       /\ (phase = "context" => phase' # "uttr")]_vars

C3_Witness ==
    /\ pc = "place_ret"
    /\ ret
    /\ phase = "uttr"
    /\ j = 1
    /\ Len(uttr_places) = 2

\* C4: with filtered main variables M and filtered context variables C,
\* both non-empty, exactly |M| registrations are attempted, one per element
\* of M in order, each pairing it with C[0], whatever earlier registrations
\* returned; no other element of C is used.
C4_PairsInState ==
    pc = "pairs" =>
        /\ main_svs # <<>>
        /\ context_svs # <<>>
        /\ Len(attempted) = k
        /\ k <= Len(main_svs)
        /\ \A n \in 1..k :
               attempted[n].chart.svs = <<main_svs[n], context_svs[1]>>

C4_EveryMainPairedWithFirstContext ==
    /\ []C4_PairsInState
    /\ [][pc = "pairs" /\ pc' = "place_ret" =>
            Len(attempted) = Len(main_svs)]_vars
    /\ [][pc = "pairs" /\ k < Len(main_svs) =>
            pc' \in {"pairs", "done"}]_vars

C4_Witness ==
    /\ pc = "pairs"
    /\ k = Len(main_svs)
    /\ k >= 2
    /\ Len(context_svs) >= 2
    /\ attempted[1].ok
    /\ ~attempted[2].ok

\* C5: when no classification read is a CONTAINED_IN one (none at all, or
\* each is None or of another variant), populate returns false and the chart
\* list is unchanged; an entry that does not match is skipped and the loop
\* goes on to the next.
C5_NoContainedIn ==
    /\ [](pc = "done" /\ place_type = NoType =>
            result = "false" /\ charts = <<>>)
    /\ [][pc = "classification"
          /\ classification.attributes # "ContainedIn" =>
            /\ pc' = "populate"
            /\ UNCHANGED <<charts, place_type, block_id, calls, result>>]_vars

C5_Witness ==
    /\ pc = "done"
    /\ result = "false"
    /\ place_type = NoType
    /\ i = MaxIntents
    /\ classification.attributes = "Other"

\* No variable of the utterance has observations across the sample.
NoMainData == \A n \in DOMAIN uttr_svs : uttr_svs[n] \notin observed

RECURSIVE AcceptedCharts(_)
AcceptedCharts(as) ==
    IF as = <<>> THEN <<>>
    ELSE IF Head(as).ok
         THEN <<Head(as).chart>> \o AcceptedCharts(Tail(as))
         ELSE AcceptedCharts(Tail(as))

\* C7 as stated: the block ids of two charts adjacent in the output list
\* differ by exactly 1, for every pattern of accepted and rejected
\* registrations.
C7_AdjacentChartsDifferByOne ==
    \A n \in 1..(Len(charts) - 1) :
        charts[n + 1].block_id = charts[n].block_id + 1

\* C7, amended: every registration attempt, accepted or rejected, takes the
\* next block id, so the block ids of the charts in the output list are
\* strictly increasing, and two adjacent charts differ by 1 plus the number
\* of rejected registrations attempted between them.
C7_BlockIdsIncreaseByAttempt ==
    /\ charts = AcceptedCharts(attempted)
    /\ \A n \in 1..(Len(attempted) - 1) :
           attempted[n + 1].chart.block_id = attempted[n].chart.block_id + 1
    /\ \A n \in 1..(Len(charts) - 1) :
           charts[n + 1].block_id > charts[n].block_id
    /\ \A a, b \in DOMAIN attempted :
           (/\ a < b
            /\ attempted[a].ok
            /\ attempted[b].ok
            /\ \A m \in (a + 1)..(b - 1) : ~attempted[m].ok)
           => attempted[b].chart.block_id
                  = attempted[a].chart.block_id + 1 + (b - a - 1)

C7_Witness ==
    /\ Len(charts) = 2
    /\ Len(attempted) = 3
    /\ ~attempted[2].ok
    /\ charts[2].block_id = charts[1].block_id + 2

\* Main variables [A, B] and context variable X: the registration of (A, X)
\* was rejected, that of (B, X) accepted, and the attempt has returned.
RejectedThenAccepted ==
    /\ pc \in {"place_ret", "type_ret", "done"}
    /\ result # "raised"
    /\ Len(attempted) = 2
    /\ ~attempted[1].ok
    /\ attempted[2].ok
    /\ \A n \in 1..2 : attempted[n].chart.svs[1] # attempted[n].chart.svs[2]

\* The block counter before the running attempt's first registration.
BlockIdBefore == attempted[1].chart.block_id - 1

\* C8 as stated: a rejected registration consumes no block id; with (A, X)
\* rejected and (B, X) accepted populate returns true, one chart is in the
\* output, and the block counter was incremented exactly once.
C8_RejectedConsumesNoBlockId ==
    RejectedThenAccepted =>
        /\ Len(charts) = 1
        /\ (pc = "done" => result = "true")
        /\ block_id = BlockIdBefore + 1

\* C8, amended: a rejected registration consumes a block id; with (A, X)
\* rejected and (B, X) accepted populate returns true, one chart is in the
\* output, the block counter was incremented twice, and the chart carries
\* the second block id.
C8_RejectedConsumesBlockId ==
    RejectedThenAccepted =>
        /\ Len(charts) = 1
        /\ (pc = "done" => result = "true")
        /\ (pc # "done" => ret)
        /\ block_id = BlockIdBefore + 2
        /\ charts[1].block_id = block_id
        /\ charts[1].svs = attempted[2].chart.svs

C8_Witness ==
    /\ RejectedThenAccepted
    /\ pc = "done"
    /\ result = "true"
    /\ block_id = 2

\* C9 as stated: when the utterance has no detected variables the
\* main-variable existence check is never invoked for any place, and
\* populate returns false.
C9_MainCheckNeverInvoked ==
    uttr_svs = <<>> =>
        /\ "main_check" \notin Ops
        /\ (Returned => result = "false")

\* C9, amended: when the utterance has no detected variables, every place
\* attempt invokes the sampler and then the main-variable existence check,
\* on an empty candidate list, and is abandoned there: the context-variable
\* existence check and the registration are never invoked, and populate
\* returns false.
C9_AbandonedAtMainCheck ==
    uttr_svs = <<>> =>
        /\ "context_check" \notin Ops
        /\ "register" \notin Ops
        /\ pc \notin {"context_check", "pairs"}
        /\ charts = <<>>
        /\ (pc = "place_ret" => calls = <<"sample", "main_check">> /\ ~ret)
        /\ (Returned => result = "false")

C9_Witness ==
    /\ uttr_svs = <<>>
    /\ pc = "place_ret"
    /\ calls = <<"sample", "main_check">>
    /\ ~ret

\* C10: every registration attempted for place P under place type T pairs
\* [m, c], in that order, where m passed the existence check of the
\* utterance's variables and c passed the existence check of the context
\* variables, both over the one sample of (P, T).
C10_PairsPassedSameSample ==
    /\ pc \in {"main_check", "context_check", "pairs"} =>
           /\ places_to_check = get_sample_child_places(place, place_type)
           /\ calls[1] = "sample"
           /\ \A n \in 2..Len(calls) : calls[n] # "sample"
    /\ pc \in {"context_check", "pairs"} =>
           /\ Range(main_svs) \subseteq Range(uttr_svs) \cap Vars \cap observed
           /\ "main_check" \in Ops
    /\ pc = "pairs" =>
           /\ Range(context_svs) \subseteq Vars \cap observed
           /\ "context_check" \in Ops
           /\ \A n \in DOMAIN attempted :
                  LET c == attempted[n].chart
                  IN  /\ Len(c.svs) = 2
                      /\ c.svs[1] \in Range(main_svs)
                      /\ c.svs[2] \in Range(context_svs)
                      /\ c.place = place
                      /\ c.place_type = place_type

C10_Witness ==
    /\ pc = "pairs"
    /\ attempted # <<>>
    /\ phase = "context"
    /\ Len(context_svs) >= 2
    /\ \E n \in DOMAIN uttr_svs : uttr_svs[n] \in Vars \ observed
    /\ attempted[1].chart.svs[1] # attempted[1].chart.svs[2]

\* The identifiers of the history in the order the loops of lines 75-76
\* meet them.
RECURSIVE Flatten(_)
Flatten(turns) ==
    IF turns = <<>> THEN <<>> ELSE Head(turns) \o Flatten(Tail(turns))

\* Where `v` first occurs in `s`.
FirstAt(v, s) == CHOOSE n \in DOMAIN s : s[n] = v /\ \A m \in 1..(n - 1) : s[m] # v

\* `out` lists the identifiers `keep` of `s` once each, by first occurrence.
ListsOnceInOrder(out, keep, s) ==
    /\ IsInjective(out)
    /\ Range(out) = Range(s) \cap keep
    /\ \A a, b \in DOMAIN out :
           a < b => FirstAt(out[a], s) < FirstAt(out[b], s)

\* C11 as stated: the list passed to the context existence check holds every
\* identifier of any history turn's variables, once, by first occurrence
\* from the most recent turn to the oldest.
C11_EveryIdentifierListed ==
    candidates.passed =>
        ListsOnceInOrder(candidates.svs, Ids, Flatten(history))

\* C11 amended: the list passed to the context existence check holds every
\* identifier of the history that get_only_svs keeps (the statistical
\* variables; a topic is dropped), once, by first occurrence from the most
\* recent turn to the oldest.
C11_EveryVariableListedOnce ==
    candidates.passed =>
        ListsOnceInOrder(candidates.svs, Vars, Flatten(history))

\* A history that repeats a variable within a turn and across turns, and
\* whose list was passed on with two variables.
C11_Witness ==
    /\ candidates.passed
    /\ Len(candidates.svs) = 2
    /\ \E t \in DOMAIN history :
           Len(history[t]) = 2 /\ history[t][1] = history[t][2]
    /\ \E t, u \in DOMAIN history :
           t < u /\ Range(history[t]) \cap Range(history[u]) \cap Vars # {}

\* The collaborator called at position `p` of a place attempt.
OpAt(p) == IF p = "pairs" THEN "register" ELSE p

\* C12: when the sampler, the existence service or the registration raises,
\* populate ends with that failure at that point: the failing call is the
\* last call made, it is not made again, and no later pair, place or intent
\* is attempted.
C12_FailureEndsPopulate ==
    /\ [](result = "raised" => pc = "done")
    /\ [][result' = "raised" /\ result # "raised" =>
            /\ pc \in {"sample", "main_check", "context_check", "pairs"}
            /\ calls' = Append(calls, OpAt(pc))
            /\ UNCHANGED <<charts, attempted, i>>]_vars
    /\ [][result = "raised" => UNCHANGED vars]_vars

\* The registration of the second pair raised after the first was accepted,
\* with places and intents still to try.
C12_Witness ==
    /\ result = "raised"
    /\ pc = "done"
    /\ calls = <<"sample", "main_check", "context_check", "register",
                 "register">>
    /\ Len(charts) = 1
    /\ i < MaxIntents
    /\ Len(uttr_places) = MaxPlaces
    /\ Len(get_only_svs(uttr_svs)) = MaxSvs

\* A place of places_from_context is being attempted.
HistoryPlaceAttempted == pc = "sample" /\ phase = "context"

\* C13 as stated: places of the history are a fallback for an empty place
\* list of the current turn; when the current turn has a place, no place of
\* the history is attempted.
C13_HistoryOnlyWithoutCurrentPlace ==
    HistoryPlaceAttempted => uttr_places = <<>>

\* C13 amended: places of the history are attempted once every place of the
\* current turn, if any, has been attempted and none yielded a chart.
C13_HistoryAfterCurrentPlacesFailed ==
    /\ [](HistoryPlaceAttempted => charts = <<>>)
    /\ [][phase # "context" /\ phase' = "context" =>
            /\ phase = "uttr"
            /\ j = Len(uttr_places)
            /\ charts = <<>>
            /\ ~ret]_vars

\* A place of the history is attempted although the current turn has places.
C13_Witness ==
    /\ HistoryPlaceAttempted
    /\ uttr_places # <<>>
    /\ place \notin Range(uttr_places)

\* A registration is attempted in this step.
Registers == pc = "pairs" /\ calls' = Append(calls, "register")

PlaceBudget == Len(uttr_places) + MaxCtxPlaces

\* The place attempts begun under the running intent.
AttemptsUnderIntent ==
    IF phase = "uttr" THEN j
    ELSE IF phase = "context" THEN Len(uttr_places) + j
    ELSE 0

\* An upper bound of the place attempts begun so far: a full budget for
\* every intent that is over, the attempts begun for the running one.
AttemptsAtMost ==
    IF pc = "classification" THEN (i - 1) * PlaceBudget
    ELSE IF phase = "none" THEN i * PlaceBudget
    ELSE (i - 1) * PlaceBudget + AttemptsUnderIntent

\* The steps left within a place attempt, at most StepsOfPlace - 1.
StepsOfPlace == MaxSvs + 6

StepsLeftInPlace ==
    CASE pc = "sample" -> MaxSvs + 5
      [] pc = "main_check" -> MaxSvs + 4
      [] pc = "context_check" -> MaxSvs + 3
      [] pc = "pairs" -> 2 + Len(main_svs) - k
      [] pc = "place_ret" -> 1
      [] OTHER -> 0

\* The places left to the running intent, the change of loop counted as one.
PlacesLeft ==
    IF phase = "uttr" THEN Len(uttr_places) - j + 1 + MaxCtxPlaces
    ELSE IF phase = "context" THEN MaxCtxPlaces - j
    ELSE 0

StepsOfIntent == 3 + (MaxPlaces + MaxCtxPlaces + 2) * StepsOfPlace

StepsLeftInIntent ==
    CASE pc = "populate" -> 0
      [] pc = "type_ret" -> 1
      [] pc = "classification" -> StepsOfIntent - 1
      [] OTHER -> 2 + PlacesLeft * StepsOfPlace + StepsLeftInPlace

\* A bound of the steps populate can still take.
StepsLeft ==
    IF pc = "done" THEN 0
    ELSE 1 + (MaxIntents - i) * StepsOfIntent + StepsLeftInIntent

\* C15: populate terminates (every step lowers a natural-number bound of
\* the steps left, and only a finished populate has no step to take), and
\* the place attempts, each with one sampling call, number at most the
\* intents read times the places of the current turn and of the history.
C15_TerminatesWithinPlaceBudget ==
    /\ [](StepsLeft \in Nat)
    /\ [][StepsLeft' < StepsLeft]_vars
    /\ [](pc # "done" => ENABLED Next)
    /\ [](i <= MaxIntents /\ AttemptsAtMost <= i * PlaceBudget)
    /\ [](AttemptsUnderIntent <= PlaceBudget)
    /\ [][/\ AttemptsAtMost' >= AttemptsAtMost
           /\ (pc # "sample" /\ pc' = "sample" =>
                 AttemptsAtMost' = AttemptsAtMost + 1)
           /\ (pc = "sample" =>
                 pc' # "sample" /\ calls' = <<"sample">>)
           /\ (pc # "sample" => Len(calls') = 0 \/ calls'[1] = "sample")]_vars

\* The last place of the last intent is being sampled: as many place
\* attempts as the bound allows.
C15_Witness ==
    /\ pc = "sample"
    /\ i = MaxIntents
    /\ Len(uttr_places) = MaxPlaces
    /\ phase = "context"
    /\ j = MaxCtxPlaces
    /\ AttemptsAtMost = MaxIntents * (MaxPlaces + MaxCtxPlaces)

\* The calls of one place attempt in their order: the sampler, the main
\* check, the context check, then registrations only.
InCallOrder(cs) ==
    \A n \in DOMAIN cs :
        cs[n] = CASE n = 1 -> "sample"
                  [] n = 2 -> "main_check"
                  [] n = 3 -> "context_check"
                  [] OTHER -> "register"

\* C16: a place attempt calls the sampler, the main existence check, the
\* context existence check and the registrations in this order, each check
\* at most once; the context check runs only after a non-empty main result,
\* a registration only with both results non-empty, and an attempt given up
\* at either check leaves the block counter and the chart list as they were.
C16_CallOrderWithinAttempt ==
    /\ [](InCallOrder(calls))
    /\ [][/\ (calls' = Append(calls, "context_check") => main_svs # <<>>)
           /\ (Registers => main_svs # <<>> /\ context_svs # <<>>)
           /\ (pc \in {"main_check", "context_check"} /\ pc' = "place_ret" =>
                 /\ ~ret'
                 /\ attempted' = <<>>
                 /\ UNCHANGED <<block_id, charts>>)]_vars

\* The second place of an intent was given up at the context check, the
\* block counter still at the id a rejected registration of the first took.
C16_Witness ==
    /\ pc = "place_ret"
    /\ calls = <<"sample", "main_check", "context_check">>
    /\ ~ret
    /\ j = 2
    /\ block_id = 1
    /\ charts = <<>>

\* C17: once populate has returned, the accepted charts all come from one
\* place attempt: they are the accepted registrations of that attempt, with
\* the same place, the same place type and the same context variable as
\* second element, and their main variables in the order of the filtered
\* main sequence.
C17_ChartsOfOnePlaceAttempt ==
    Returned =>
        /\ charts = AcceptedCharts(attempted)
        /\ \A a, b \in DOMAIN charts :
               /\ charts[a].place = charts[b].place
               /\ charts[a].place_type = charts[b].place_type
               /\ charts[a].svs[2] = charts[b].svs[2]
               /\ a < b => FirstAt(charts[a].svs[1], uttr_svs)
                               < FirstAt(charts[b].svs[1], uttr_svs)
        /\ \A a \in DOMAIN charts :
               charts[a].svs[1] \in Range(get_only_svs(uttr_svs))

\* populate returned true with two charts of an attempt that also had a
\* rejected registration, after an earlier attempt whose registrations were
\* all rejected.
C17_Witness ==
    /\ Returned
    /\ result = "true"
    /\ Len(charts) = 2
    /\ Len(attempted) = 3
    /\ block_id > Len(attempted)

\* C18: the two variables of every pair handed to the registration are
\* different; a variable is never paired with itself, also when the current
\* turn and the history hold the same variable.
C18_PairVariablesDistinct ==
    \A n \in DOMAIN attempted :
        attempted[n].chart.svs[1] # attempted[n].chart.svs[2]

\* C19: import_key returns the key it was given when the POST fails with
\* status 409, raises any other HTTP status error again, and returns the
\* response's consumerKey, or the empty string without one, on success.
C19_ImportKeyReturnsKeyOnExists ==
    returned # NotReturned =>
        CASE http.kind = "response" ->
               returned = Value(Get(http.response, "consumerKey", ""))
          [] http.kind = "error"
               /\ http.status_code = HTTP_RESOURCE_EXISTS_CODE ->
               returned = Value(request.key)
          [] OTHER -> returned = Raised(http.status_code)

====
